---- MODULE Spec2Model ----
(***************************************************************************)
(* A model of src/util.ts of deploy-cloud-functions: zipDir, which packs a *)
(* directory into a zip archive through the `archiver` package and filters *)
(* its entries by the rules of a .gcloudignore file through the `ignore`   *)
(* package; getGcloudIgnores, which loads those rules; and formatEntry,    *)
(* which renders one archive entry as a line of text.                      *)
(*                                                                         *)
(* Strings are TLA+ strings.  The two packages are modelled at their call  *)
(* sites by the behaviour the versions pinned in package.json document     *)
(* (archiver ^5.3.1, ignore ^5.2.4), for the pattern language the ignore   *)
(* files below use: literal characters, "*" followed by further pattern    *)
(* characters, "/" (leading, inner and trailing), a leading "!" and a      *)
(* leading "#".  Path names are lower case (the matcher ignores case).     *)
(***************************************************************************)
EXTENDS Integers, Sequences, FiniteSets, TLC

VARIABLES
    dirExists,    \* fs: whether dirPath exists when zipDir is called
    tree,         \* fs: the nodes under dirPath other than .gcloudignore, in walk order
    ignoreFile,   \* fs: dirPath/.gcloudignore: NoFile, File(content) or Unreadable
    outputPath,   \* zipDir argument
    opts,         \* zipDir argument: <<>> for none, <<observer>> for {onZipEntry}
    pc,           \* position of the zipDir call
    thrown,       \* the error zipDir threw synchronously, "" for none
    outputOpened, \* fs.createWriteStream(outputPath) was called
    promise,      \* the returned promise: [state, value]
    reads,        \* number of getGcloudIgnores calls made by the zipDir call
    rulesChecked, \* result of the getGcloudIgnores call of line 74
    rulesUsed,    \* result of the getGcloudIgnores call of line 75
    filterSet,    \* gIgnoreF is defined
    walk,         \* the nodes archive.directory enumerates
    idx,          \* next node of walk to be considered
    archive,      \* entries appended to the archive so far
    observed,     \* what the onZipEntry observer has recorded, one item a call
    log,          \* terminal events emitted so far, in order
    fmtEntry,     \* formatEntry: its argument
    fmtOut        \* formatEntry: its result, <<>> before the call

vars == <<dirExists, tree, ignoreFile, outputPath, opts, pc, thrown, outputOpened,
          promise, reads, rulesChecked, rulesUsed, filterSet, walk, idx, archive,
          observed, log, fmtEntry, fmtOut>>

(***************************************************************************)
(* Strings                                                                 *)
(***************************************************************************)
Char(s, i) == SubSeq(s, i, i)

Rest(s, i) == SubSeq(s, i, Len(s))

StartsWith(s, p) == Len(p) <= Len(s) /\ SubSeq(s, 1, Len(p)) = p

EndsWith(s, p) == Len(p) <= Len(s) /\ SubSeq(s, Len(s) - Len(p) + 1, Len(s)) = p

HasChar(s, c) == \E i \in 1..Len(s) : Char(s, i) = c

FirstIndex(s, c) == CHOOSE i \in 1..Len(s) : Char(s, i) = c /\ ~HasChar(SubSeq(s, 1, i - 1), c)

\* String.prototype.trim: white space and line terminators off both ends
IsSpace(c) == c \in {" ", "\t", "\n", "\r"}

Trim(s) ==
    LET keep == {i \in 1..Len(s) : ~IsSpace(Char(s, i))}
    IN  IF keep = {} THEN ""
        ELSE SubSeq(s, CHOOSE i \in keep : \A j \in keep : i <= j,
                       CHOOSE i \in keep : \A j \in keep : i >= j)

\* String.prototype.split(/\r?\n/)
RECURSIVE SplitLines(_)
SplitLines(s) ==
    IF ~HasChar(s, "\n") THEN <<s>>
    ELSE LET i    == FirstIndex(s, "\n")
             line == SubSeq(s, 1, i - 1)
             head == IF EndsWith(line, "\r") THEN SubSeq(line, 1, Len(line) - 1) ELSE line
         IN  <<head>> \o SplitLines(Rest(s, i + 1))

MapTrimNone(lines) == lines

\* Array.prototype.map((s) => s.trim())
MapTrim(lines) == [i \in 1..Len(lines) |-> Trim(lines[i])]

LowerCase == "abcdefghijklmnopqrstuvwxyz"

UpperCase == "ABCDEFGHIJKLMNOPQRSTUVWXYZ"

UpperChar(c) ==
    IF HasChar(LowerCase, c) THEN Char(UpperCase, FirstIndex(LowerCase, c)) ELSE c

RECURSIVE ToUpperCase(_)
ToUpperCase(s) == IF s = "" THEN "" ELSE UpperChar(Char(s, 1)) \o ToUpperCase(Rest(s, 2))

(***************************************************************************)
(* getGcloudIgnores                                                        *)
(***************************************************************************)
NoFile == [exists |-> FALSE]

File(content) == [exists |-> TRUE, readable |-> TRUE, content |-> content]

Unreadable == [exists |-> TRUE, readable |-> FALSE]

ReadError == "EACCES: permission denied, open '.gcloudignore'"

\* The lines of .gcloudignore, trimmed; <<>> when there is no such file.
\* Defined for a file readFileSync can read.
getGcloudIgnores(file) ==
    IF ~file.exists THEN <<>>
    ELSE MapTrim(SplitLines(file.content))

\* readFileSync throws for a file that exists and cannot be read
getGcloudIgnoresThrows(file) == file.exists /\ ~file.readable

(***************************************************************************)
(* ignore().add(patterns) and .ignores(path)                               *)
(***************************************************************************)
\* checkPattern: blank lines and comments make no rule
IsRuleLine(line) == Trim(line) # "" /\ ~StartsWith(line, "#")

\* createRule: a leading "!" makes the rule negative
MakeRule(line) ==
    IF StartsWith(line, "!") THEN [negative |-> TRUE, pattern |-> Rest(line, 2)]
    ELSE [negative |-> FALSE, pattern |-> line]

RECURSIVE AddRules(_)
AddRules(lines) ==
    IF lines = <<>> THEN <<>>
    ELSE (IF IsRuleLine(Head(lines)) THEN <<MakeRule(Head(lines))>> ELSE <<>>)
         \o AddRules(Tail(lines))

\* the pattern as a glob over one path: "*" stands for [^/]*
RECURSIVE GlobMatch(_, _)
GlobMatch(p, s) ==
    IF p = "" THEN s = ""
    ELSE IF Char(p, 1) = "*"
         THEN \E k \in 0..Len(s) :
                  /\ ~HasChar(SubSeq(s, 1, k), "/")
                  /\ GlobMatch(Rest(p, 2), Rest(s, k + 1))
         ELSE /\ s # ""
              /\ Char(s, 1) = Char(p, 1)
              /\ GlobMatch(Rest(p, 2), Rest(s, 2))

\* rule.regex.test(path): a pattern with a slash at its beginning or middle is
\* anchored at the root ("^"), any other matches at every level ("(?:^|\/)"); a
\* pattern ending in "/" matches only a path ending in "/" ("foo/ will not match
\* foo"), any other matches a path with or without a final "/" ("(?=$|\/$)").
RegexTest(pattern, path) ==
    LET anchored == HasChar(SubSeq(pattern, 1, Len(pattern) - 1), "/")
        body     == IF StartsWith(pattern, "/") THEN Rest(pattern, 2) ELSE pattern
        starts   == IF anchored THEN {1}
                    ELSE {1} \cup {i + 1 : i \in {j \in 1..Len(path) : Char(path, j) = "/"}}
        ends     == IF EndsWith(pattern, "/") THEN {Len(path)}
                    ELSE {Len(path)} \cup
                         (IF EndsWith(path, "/") THEN {Len(path) - 1} ELSE {})
    IN  \E s \in starts, e \in ends : s <= e + 1 /\ GlobMatch(body, SubSeq(path, s, e))

\* _testOne: the rules in order; a negative rule is tried only on an ignored path
\* and a positive one only on a path not ignored; the last match decides
RECURSIVE TestOne(_, _, _)
TestOne(rules, path, ignored) ==
    IF rules = <<>> THEN ignored
    ELSE LET rule == Head(rules)
         IN  TestOne(Tail(rules), path,
                     IF rule.negative = ignored /\ RegexTest(rule.pattern, path)
                     THEN ~rule.negative ELSE ignored)

\* _t: a path is ignored when one of its parent directories (tested with a
\* trailing "/") is, and otherwise by _testOne
Ignores(rules, path) ==
    \E k \in 1..Len(path) :
        /\ k = Len(path) \/ Char(path, k) = "/"
        /\ TestOne(rules, SubSeq(path, 1, k), FALSE)

(***************************************************************************)
(* formatEntry                                                             *)
(***************************************************************************)
\* an optional field is <<>> (missing) or <<v>>; x || d for a number and a string
NumberOr(x, d) == IF x = <<>> \/ x[1] = 0 THEN d ELSE ToString(x[1])

StringOr(x, d) == IF x = <<>> \/ x[1] = "" THEN d ELSE x[1]

formatEntryNoUpper(entry) ==
    "[" \o Char(StringOr(entry.type, "unknown"), 1) \o "] ("
        \o NumberOr(entry.mode, "000") \o ") " \o entry.name \o " => "
        \o StringOr(entry.sourcePath, "unknown")

formatEntry(entry) ==
    LET name       == entry.name
        mode       == NumberOr(entry.mode, "000")
        sourcePath == StringOr(entry.sourcePath, "unknown")
        type       == Char(ToUpperCase(StringOr(entry.type, "unknown")), 1)
    IN  "[" \o type \o "] (" \o mode \o ") " \o name \o " => " \o sourcePath


(***************************************************************************)
(* The file system and the arguments zipDir is called with                 *)
(***************************************************************************)
dirPath == "/tmp/fn"

OutputPaths == {"/tmp/out.zip", "/tmp/fn.zip"}

FileNode(name, mode) == [name |-> name, type |-> "file", mode |-> mode]

DirNode(name) == [name |-> name, type |-> "directory", mode |-> 493]

TreeFn ==
    << FileNode("index.js", 420), DirNode("node_modules"),
       DirNode("node_modules/dep"), FileNode("node_modules/dep/a.js", 420) >>

TreeLogs ==
    << FileNode("keep.log", 420), FileNode("other.log", 420), DirNode("sub"),
       FileNode("sub/keep.log", 420), FileNode("sub/other.log", 420) >>

TreeLib ==
    << FileNode("index.js", 493), DirNode("lib"), FileNode("lib/index.js", 420),
       FileNode("secret.key", 0) >>

Trees == {TreeFn, TreeLogs, TreeLib}

NodeModulesFile == File("node_modules/")

LogRulesFile == File("*.log\n!keep.log")

LogRulesFileCrLf == File("*.log\r\n !keep.log \r\n")

IgnoreFiles ==
    { NoFile, Unreadable, NodeModulesFile, LogRulesFile, LogRulesFileCrLf,
      File(""), File("# build\n/index.js\nlib/\n") }

\* an observer as main.ts supplies it: it logs formatEntry(entry)
LogObserver == "formatEntry"

OptsSet == {<<>>, <<LogObserver>>}

(***************************************************************************)
(* The promise and the listeners zipDir registers                          *)
(***************************************************************************)
NoPromise == [state |-> "none", value |-> ""]

Pending == [state |-> "pending", value |-> ""]

\* resolve and reject of a promise: only the first call settles it
SettleAlways(p, state, value) == [state |-> state, value |-> value]

Settle(p, state, value) ==
    IF p.state = "pending" THEN [state |-> state, value |-> value] ELSE p

OnWarningIgnored(p, err) == p

\* archive.on('warning', (err) => reject(err))
OnWarning(p, err) == Settle(p, "rejected", err)

\* archive.on('error', (err) => reject(err))
OnError(p, err) == Settle(p, "rejected", err)

\* output.on('finish', () => resolve(outputPath))
OnFinish(p, out) == Settle(p, "resolved", out)

OnEntryNever(o, entry, obs) == obs

\* archive.on('entry', (entry) => { if (opts?.onZipEntry) opts.onZipEntry(entry) })
OnEntry(o, entry, obs) ==
    IF o # <<>> THEN Append(obs, formatEntry(entry)) ELSE obs

ExecutorEndResolves(p, out) == Settle(p, "resolved", out)

\* archive.finalize() is called and the executor returns: nothing settles here
ExecutorEnd(p, out) == p

(***************************************************************************)
(* zipDir                                                                  *)
(***************************************************************************)
NoError == ""

CheckDirPathNever(exists) == NoError

\* if (!fs.existsSync(dirPath)) throw new Error(`Unable to find ${dirPath}`)
CheckDirPath(exists) == IF ~exists THEN "Unable to find " \o dirPath ELSE NoError

FilterWantedOffByOne(rules) == Len(rules) > 1

\* if (getGcloudIgnores(dirPath).length > 0)
FilterWanted(rules) == Len(rules) > 0

gIgnoreFInverted(gIgnore, file) == IF Ignores(gIgnore, file.name) THEN <<file>> ELSE <<>>

\* gIgnoreF: the entry when its name is not ignored, <<>> for false
gIgnoreF(gIgnore, file) == IF ~Ignores(gIgnore, file.name) THEN <<file>> ELSE <<>>

\* readdir-glob under archive.directory, with dot: true: every node under
\* dirPath, .gcloudignore included when there is one
WalkList(file, nodes) ==
    (IF file.exists THEN <<FileNode(".gcloudignore", 420)>> ELSE <<>>) \o nodes

\* archive.directory(dirPath, false, ...): the entry data of a match, its name
\* relative to dirPath under the prefix destpath
EntryData(destpath, node) ==
    [name |-> IF destpath = "" THEN node.name ELSE destpath \o "/" \o node.name,
     node |-> node]

\* the entry as archiver appends it and hands it to the 'entry' listeners: a
\* directory's name ends in "/"
AppendedEntry(file) ==
    [name       |-> IF file.node.type = "directory" THEN file.name \o "/" ELSE file.name,
     mode       |-> <<file.node.mode>>,
     type       |-> <<file.node.type>>,
     sourcePath |-> <<dirPath \o "/" \o file.node.name>>]

NoEntry == [name |-> "a", mode |-> <<>>, type |-> <<>>, sourcePath |-> <<>>]

Init ==
    /\ dirExists \in BOOLEAN
    /\ tree \in Trees
    /\ ignoreFile \in IgnoreFiles
    /\ outputPath \in OutputPaths
    /\ opts \in OptsSet
    /\ pc = "idle"
    /\ thrown = NoError
    /\ outputOpened = FALSE
    /\ promise = NoPromise
    /\ reads = 0
    /\ rulesChecked = <<>>
    /\ rulesUsed = <<>>
    /\ filterSet = FALSE
    /\ walk = <<>>
    /\ idx = 1
    /\ archive = <<>>
    /\ observed = <<>>
    /\ log = <<>>
    /\ fmtEntry = NoEntry
    /\ fmtOut = <<>>

inputVars == <<dirExists, tree, outputPath, opts, fmtEntry, fmtOut>>

\* zipDir, lines 49-51: the directory is missing and the call throws
ZipDirThrow ==
    /\ pc = "idle"
    /\ CheckDirPath(dirExists) # NoError
    /\ thrown' = CheckDirPath(dirExists)
    /\ pc' = "thrown"
    /\ UNCHANGED <<inputVars, ignoreFile, outputOpened, promise, reads, rulesChecked,
                   rulesUsed, filterSet, walk, idx, archive, observed, log>>

\* zipDir, lines 53-74: the executor opens the output, registers the listeners
\* and reads the ignore file for the condition of line 74; a throw of
\* readFileSync inside the executor rejects the promise
ZipDirBegin ==
    /\ pc = "idle"
    /\ CheckDirPath(dirExists) = NoError
    /\ outputOpened' = TRUE
    /\ reads' = reads + 1
    /\ IF getGcloudIgnoresThrows(ignoreFile)
       THEN /\ promise' = Settle(Pending, "rejected", ReadError)
            /\ pc' = "failed"
            /\ UNCHANGED rulesChecked
       ELSE /\ promise' = Pending
            /\ pc' = "line74"
            /\ rulesChecked' = getGcloudIgnores(ignoreFile)
    /\ UNCHANGED <<inputVars, ignoreFile, thrown, rulesUsed, filterSet, walk, idx,
                   archive, observed, log>>

\* Another process rewrites, creates or removes .gcloudignore between the two
\* synchronous reads of the call. A change before the call is another initial
\* state and a change after the second read is one the call never sees.
IgnoreFileChange ==
    /\ pc = "line74"
    /\ ignoreFile' \in IgnoreFiles \ {ignoreFile}
    /\ UNCHANGED <<inputVars, pc, thrown, outputOpened, promise, reads, rulesChecked,
                   rulesUsed, filterSet, walk, idx, archive, observed, log>>

\* zipDir, lines 74-88: with a rule to apply, the ignore file is read again and
\* the filter built from what that read returns; the directory is handed to the
\* archive and the archive finalized
ZipDirFilter ==
    /\ pc = "line74"
    /\ IF FilterWanted(rulesChecked)
       THEN /\ reads' = reads + 1
            /\ IF getGcloudIgnoresThrows(ignoreFile)
               THEN /\ promise' = Settle(promise, "rejected", ReadError)
                    /\ pc' = "failed"
                    /\ UNCHANGED <<rulesUsed, filterSet, walk>>
               ELSE /\ rulesUsed' = getGcloudIgnores(ignoreFile)
                    /\ filterSet' = TRUE
                    /\ walk' = WalkList(ignoreFile, tree)
                    /\ promise' = ExecutorEnd(promise, outputPath)
                    /\ pc' = "packing"
       ELSE /\ walk' = WalkList(ignoreFile, tree)
            /\ promise' = ExecutorEnd(promise, outputPath)
            /\ pc' = "packing"
            /\ UNCHANGED <<reads, rulesUsed, filterSet>>
    /\ UNCHANGED <<inputVars, ignoreFile, thrown, outputOpened, rulesChecked, idx,
                   archive, observed, log>>

\* archive.directory, one match: the filter, when there is one, decides whether
\* the entry is appended; an appended entry is announced by an 'entry' event
DirectoryMatch ==
    /\ pc = "packing"
    /\ idx <= Len(walk)
    /\ idx' = idx + 1
    /\ LET file == EntryData("", walk[idx])
           kept == IF filterSet THEN gIgnoreF(AddRules(rulesUsed), file) ELSE <<file>>
       IN  IF kept = <<>>
           THEN UNCHANGED <<archive, observed>>
           ELSE /\ archive' = Append(archive, AppendedEntry(kept[1]))
                /\ observed' = OnEntry(opts, AppendedEntry(kept[1]), observed)
    /\ UNCHANGED <<inputVars, ignoreFile, pc, thrown, outputOpened, promise, reads,
                   rulesChecked, rulesUsed, filterSet, walk, log>>

\* the events of the archive and of the output stream: each 'warning' and
\* 'error' carries an error of its own
MaxEvents == 2

ArchiveEvents == {i \in 1..Len(log) : log[i].kind # "finish"}

Finished == \E i \in 1..Len(log) : log[i].kind = "finish"

NextError == "error#" \o ToString(Len(log) + 1)

EmitWarning ==
    /\ pc = "packing"
    /\ Cardinality(ArchiveEvents) < MaxEvents
    /\ log' = Append(log, [kind |-> "warning", err |-> NextError])
    /\ promise' = OnWarning(promise, NextError)
    /\ UNCHANGED <<inputVars, ignoreFile, pc, thrown, outputOpened, reads, rulesChecked,
                   rulesUsed, filterSet, walk, idx, archive, observed>>

EmitError ==
    /\ pc = "packing"
    /\ Cardinality(ArchiveEvents) < MaxEvents
    /\ log' = Append(log, [kind |-> "error", err |-> NextError])
    /\ promise' = OnError(promise, NextError)
    /\ UNCHANGED <<inputVars, ignoreFile, pc, thrown, outputOpened, reads, rulesChecked,
                   rulesUsed, filterSet, walk, idx, archive, observed>>

\* the output stream finishes once, after the finalized archive has ended
EmitFinish ==
    /\ pc = "packing"
    /\ idx > Len(walk)
    /\ ~Finished
    /\ log' = Append(log, [kind |-> "finish", err |-> NoError])
    /\ promise' = OnFinish(promise, outputPath)
    /\ UNCHANGED <<inputVars, ignoreFile, pc, thrown, outputOpened, reads, rulesChecked,
                   rulesUsed, filterSet, walk, idx, archive, observed>>

Next ==
    \/ ZipDirThrow
    \/ ZipDirBegin
    \/ IgnoreFileChange
    \/ ZipDirFilter
    \/ DirectoryMatch
    \/ EmitWarning
    \/ EmitError
    \/ EmitFinish

Spec == Init /\ [][Next]_vars

(***************************************************************************)
(* formatEntry on its own: every entry of FormatEntries, formatted once    *)
(***************************************************************************)
FormatEntries ==
    [name       : {"index.js", "node_modules/"},
     mode       : {<<>>, <<0>>, <<420>>, <<493>>},
     sourcePath : {<<>>, <<"">>, <<"/tmp/fn/index.js">>},
     type       : {<<>>, <<"">>, <<"file">>, <<"directory">>, <<"symlink">>}]

InitFormat ==
    /\ fmtEntry \in FormatEntries
    /\ fmtOut = <<>>
    /\ pc = "formatEntry"
    /\ dirExists = TRUE
    /\ tree = <<>>
    /\ ignoreFile = NoFile
    /\ outputPath = ""
    /\ opts = <<>>
    /\ thrown = NoError
    /\ outputOpened = FALSE
    /\ promise = NoPromise
    /\ reads = 0
    /\ rulesChecked = <<>>
    /\ rulesUsed = <<>>
    /\ filterSet = FALSE
    /\ walk = <<>>
    /\ idx = 1
    /\ archive = <<>>
    /\ observed = <<>>
    /\ log = <<>>

FormatEntry ==
    /\ pc = "formatEntry"
    /\ fmtOut = <<>>
    /\ fmtOut' = <<formatEntry(fmtEntry)>>
    /\ UNCHANGED <<dirExists, tree, ignoreFile, outputPath, opts, pc, thrown,
                   outputOpened, promise, reads, rulesChecked, rulesUsed, filterSet,
                   walk, idx, archive, observed, log, fmtEntry>>

NextFormat == FormatEntry

SpecFormat == InitFormat /\ [][NextFormat]_vars

(***************************************************************************)
(* Properties                                                              *)
(***************************************************************************)
Resolved == promise.state = "resolved"

Rejected == promise.state = "rejected"

ArchiveNames == {archive[i].name : i \in 1..Len(archive)}

WalkNodes == {walk[i] : i \in 1..Len(walk)}

\* the name a node has in the archive: relative to dirPath, a directory's with "/"
NodeName(n) == IF n.type = "directory" THEN n.name \o "/" ELSE n.name

\* the last component of a path
Basename(path) ==
    LET slashes == {i \in 1..Len(path) : Char(path, i) = "/"}
    IN  IF slashes = {} THEN path
        ELSE Rest(path, 1 + CHOOSE i \in slashes : \A j \in slashes : i >= j)

\* C1: when the source directory is missing, the call fails with the "Unable to
\* find <dirPath>" error (thrown before a promise exists) and the destination
\* write stream is never opened, in any state of the call.
C1_MissingDirNeverOpensOutput ==
    ~dirExists =>
        /\ ~outputOpened
        /\ promise = NoPromise
        /\ pc \in {"idle", "thrown"}
        /\ pc = "thrown" => thrown = "Unable to find " \o dirPath

C1_Witness == ~dirExists /\ pc = "thrown" /\ thrown # NoError

\* C2: the promise is resolved only once the output stream has emitted 'finish',
\* and its value is then the outputPath argument.
C2_ResolvedOnlyAfterFinish ==
    Resolved => Finished /\ promise.value = outputPath

C2_Witness == Resolved /\ Finished /\ archive # <<>> /\ promise.value = outputPath

\* C3 as stated: every 'warning' or 'error' event the archive emitted has made the
\* call reject with that event's error.
C3_EveryArchiveEventRejects ==
    \A i \in ArchiveEvents : Rejected /\ promise.value = log[i].err

\* C3 as amended: a 'warning' or 'error' event emitted before the output's
\* 'finish' leaves the call rejected, never resolved, a warning like an error;
\* the error reported is that of the first such event, the event that found the
\* promise pending.
C3_FirstArchiveEventRejects ==
    \A i \in ArchiveEvents :
        (\A j \in 1..(i - 1) : log[j].kind # "finish") =>
            /\ Rejected
            /\ promise.value = log[1].err

C3_Witness ==
    /\ Len(log) >= 3
    /\ log[1].kind = "warning"
    /\ log[2].kind = "error"
    /\ Finished
    /\ Rejected

\* the rules the call applies: those the filter was built from, none without one
LoadedRules == IF filterSet THEN AddRules(rulesUsed) ELSE <<>>

C5_NodeModulesExcluded ==
    (/\ Resolved
     /\ tree = TreeFn
     /\ ignoreFile = NodeModulesFile
     /\ rulesChecked = <<"node_modules/">>) =>
        /\ "index.js" \in ArchiveNames
        /\ ".gcloudignore" \in ArchiveNames
        /\ \A name \in ArchiveNames :
               ~(StartsWith(name, "node_modules/") /\ name # "node_modules/")

C5_Witness ==
    /\ Resolved
    /\ tree = TreeFn
    /\ ignoreFile = NodeModulesFile
    /\ rulesChecked = <<"node_modules/">>
    /\ Len(walk) = 5

LogRules ==
    /\ filterSet
    /\ tree = TreeLogs
    /\ ignoreFile \in {LogRulesFile, LogRulesFileCrLf}

\* C6 as stated: with the rules *.log and !keep.log, keep.log is archived and
\* every other name ending in .log, at any depth, is not.
C6_OnlyKeepLogSurvives ==
    (Resolved /\ LogRules) =>
        /\ "keep.log" \in ArchiveNames
        /\ \A n \in WalkNodes :
               EndsWith(n.name, ".log") /\ n.name # "keep.log" => n.name \notin ArchiveNames

\* C6 as amended: with the rules *.log and !keep.log, keep.log at the root is
\* archived and every name ending in .log whose last component is not keep.log,
\* at any depth, is not (sub/keep.log is re-included like keep.log).
C6_NegationReincludesKeepLog ==
    (Resolved /\ LogRules) =>
        /\ "keep.log" \in ArchiveNames
        /\ \A n \in WalkNodes :
               EndsWith(n.name, ".log") /\ Basename(n.name) # "keep.log"
                   => n.name \notin ArchiveNames

C6_Witness ==
    /\ Resolved
    /\ LogRules
    /\ "sub/keep.log" \in ArchiveNames
    /\ "sub/other.log" \notin ArchiveNames
    /\ ignoreFile = LogRulesFileCrLf

\* the initial of a type, upper case
TypeInitial(type) == IF type = "" THEN "" ELSE UpperChar(Char(type, 1))

FormatLine(t, mode, name, sourcePath) ==
    "[" \o t \o "] (" \o mode \o ") " \o name \o " => " \o sourcePath

\* C7 as stated: the line is [T] (mode) name => sourcePath, with 000 for a
\* missing mode, unknown for a missing sourcePath and U for a missing type.
C7_MissingFieldsDefault ==
    fmtOut # <<>> =>
        fmtOut[1] = FormatLine(
            IF fmtEntry.type = <<>> THEN "U" ELSE TypeInitial(fmtEntry.type[1]),
            IF fmtEntry.mode = <<>> THEN "000" ELSE ToString(fmtEntry.mode[1]),
            fmtEntry.name,
            IF fmtEntry.sourcePath = <<>> THEN "unknown" ELSE fmtEntry.sourcePath[1])

\* C7 as amended: the line is [T] (mode) name => sourcePath, with 000 for a mode
\* that is missing or 0, unknown for a sourcePath that is missing or empty and U
\* for a type that is missing or empty; an entry with only a name gives
\* [U] (000) name => unknown.
C7_FalsyFieldsDefault ==
    fmtOut # <<>> =>
        /\ fmtOut[1] = FormatLine(
               IF fmtEntry.type \in {<<>>, <<"">>} THEN "U" ELSE TypeInitial(fmtEntry.type[1]),
               IF fmtEntry.mode \in {<<>>, <<0>>} THEN "000" ELSE ToString(fmtEntry.mode[1]),
               fmtEntry.name,
               IF fmtEntry.sourcePath \in {<<>>, <<"">>} THEN "unknown"
               ELSE fmtEntry.sourcePath[1])
        /\ (fmtEntry.type = <<>> /\ fmtEntry.mode = <<>> /\ fmtEntry.sourcePath = <<>>)
               => fmtOut[1] = "[U] (000) " \o fmtEntry.name \o " => unknown"

C7_Witness ==
    /\ fmtOut = <<"[D] (493) node_modules/ => unknown">>
    /\ fmtEntry.sourcePath = <<>>

\* the nodes among the first k of the walk that the filter, when set, lets through
KeptNodes(k) ==
    LET rules == LoadedRules
    IN  SelectSeq(SubSeq(walk, 1, k), LAMBDA n : ~Ignores(rules, n.name))

C9_Witness ==
    /\ Resolved
    /\ filterSet
    /\ AddRules(rulesUsed) # AddRules(rulesChecked)
    /\ archive # <<>>

\* C9: the call loads the ignore rules once, and the rules that decide whether a
\* filter is applied are the rules the filter is built from.
C9_RulesLoadedOnce ==
    /\ reads <= 1
    /\ filterSet => rulesUsed = rulesChecked

\* C10: once the promise has resolved or rejected, no later finish, warning or
\* error event changes its state or its value, and the outcome is that of the
\* first terminal event.
C10_SettlesOnce ==
    /\ [][promise.state \in {"resolved", "rejected"} => promise' = promise]_vars
    /\ [](log # <<>> =>
             promise = IF log[1].kind = "finish"
                       THEN [state |-> "resolved", value |-> outputPath]
                       ELSE [state |-> "rejected", value |-> log[1].err])

C10_Witness ==
    /\ Len(log) >= 3
    /\ log[1].kind = "finish"
    /\ Resolved

====
